---------------------------- MODULE Spec2Model ----------------------------
(***************************************************************************)
(* A model of the grid-trading bot of src/src/gridbot.rs and of the parts  *)
(* of the exchange client of src/src/coss.rs it calls.                     *)
(*                                                                         *)
(* Prices, limits, amounts and balances are f32 in the program.  They are  *)
(* modelled as IEEE-754 binary32 values: NaN, the two infinities, zero and *)
(* sgn * man * 2^exp, with every operation rounded to nearest, ties to     *)
(* even, as the hardware rounds it.                                        *)
(***************************************************************************)
EXTENDS Integers, Sequences, FiniteSets, TLC

(***************************************************************************)
(* f32: representation                                                     *)
(***************************************************************************)
\* Significand width of binary32 (the hidden bit included).
MantBits == 24
\* Exponent of the least significant bit of the smallest (subnormal) values.
EMin == -149
\* Exponent of the least significant bit of the largest finite values.
EMax == 104

NaN == [cls |-> "nan", sgn |-> 1, man |-> 0, exp |-> 0]
Inf(s) == [cls |-> "inf", sgn |-> s, man |-> 0, exp |-> 0]
\* One zero: the inputs hold no -0.0, round-to-nearest sums give none, and
\* the program never divides by a zero that could be negative.
Zero == [cls |-> "fin", sgn |-> 1, man |-> 0, exp |-> 0]
Fin(s, m, e) == [cls |-> "fin", sgn |-> s, man |-> m, exp |-> e]

IsNaN(x) == x.cls = "nan"
IsInf(x) == x.cls = "inf"
IsZero(x) == x.cls = "fin" /\ x.man = 0
IsFinite(x) == x.cls = "fin"

Max(a, b) == IF a >= b THEN a ELSE b

\* Number of significant bits of n, 0 <= n < 2^30: the least k <= top with
\* n < 2^k, searched from the top.
RECURSIVE BitLenFrom(_, _)
BitLenFrom(n, top) ==
    IF top = 0 \/ n >= 2^(top - 1) THEN top ELSE BitLenFrom(n, top - 1)

BitLen(n) == BitLenFrom(n, 30)

\* The f32 nearest to s * (n + f) * 2^e, where n is a natural number and f
\* is 0, or some fraction strictly between 0 and 1 when sticky: round to
\* nearest, ties to even, overflow to infinity, gradual underflow.
RoundPack(s, n, e, sticky) ==
    IF n = 0 THEN Zero
    ELSE LET sh == Max(BitLen(n) - MantBits, EMin - e) IN
         IF sh <= 0
         THEN IF e + sh > EMax THEN Inf(s) ELSE Fin(s, n * 2^(-sh), e + sh)
         ELSE IF sh > 30 THEN Zero
         ELSE LET q == n \div 2^sh
                  r == n % 2^sh
                  half == 2^(sh - 1)
                  up == r > half \/ (r = half /\ (sticky \/ q % 2 = 1))
                  m == IF up THEN q + 1 ELSE q
                  carry == m = 2^MantBits
                  m2 == IF carry THEN 2^(MantBits - 1) ELSE m
                  e2 == IF carry THEN e + sh + 1 ELSE e + sh
              IN IF m2 = 0 THEN Zero
                 ELSE IF e2 > EMax THEN Inf(s)
                 ELSE Fin(s, m2, e2)

\* A finite nonzero x as <<m, e>> with x = sgn * m * 2^e and
\* 2^23 <= m < 2^24 (a subnormal's exponent goes below EMin).
Norm(x) ==
    LET sh == MantBits - BitLen(x.man) IN <<x.man * 2^sh, x.exp - sh>>

F32Neg(x) == IF IsNaN(x) \/ IsZero(x) THEN x ELSE [x EXCEPT !.sgn = -x.sgn]

(***************************************************************************)
(* f32: + and -                                                            *)
(***************************************************************************)
\* big + small for finite nonzero operands, |big|'s exponent the larger.
\* The sum is formed exactly in units of 2^(small's exponent) when the
\* exponents are close, else with three guard bits below big and the rest
\* of small as a sticky fraction.
AddAligned(sb, mb, eb, ss, ms, es) ==
    LET d == eb - es
        close == d <= 3
        A == IF close THEN mb * 2^d ELSE mb * 8
        B == IF close THEN ms
             ELSE IF d - 3 > 30 THEN 0 ELSE ms \div 2^(d - 3)
        sticky == IF close THEN FALSE
                  ELSE IF d - 3 > 30 THEN TRUE ELSE ms % 2^(d - 3) # 0
        e == IF close THEN es ELSE eb - 3
    IN IF sb = ss THEN RoundPack(sb, A + B, e, sticky)
       ELSE IF sticky THEN RoundPack(sb, A - B - 1, e, TRUE)
       ELSE IF A >= B THEN RoundPack(sb, A - B, e, FALSE)
       ELSE RoundPack(ss, B - A, e, FALSE)

F32Add(a, b) ==
    IF IsNaN(a) \/ IsNaN(b) THEN NaN
    ELSE IF IsInf(a) THEN (IF IsInf(b) /\ b.sgn # a.sgn THEN NaN ELSE a)
    ELSE IF IsInf(b) THEN b
    ELSE IF IsZero(a) THEN b
    ELSE IF IsZero(b) THEN a
    ELSE LET na == Norm(a)
             nb == Norm(b)
         IN IF na[2] >= nb[2]
            THEN AddAligned(a.sgn, na[1], na[2], b.sgn, nb[1], nb[2])
            ELSE AddAligned(b.sgn, nb[1], nb[2], a.sgn, na[1], na[2])

F32Sub(a, b) == F32Add(a, F32Neg(b))

(***************************************************************************)
(* f32: *                                                                  *)
(***************************************************************************)
\* <<n, sticky>> with ma * mb = (n + f) * 2^20, for 24-bit ma and mb: the
\* 48-bit product formed from 12-bit halves.
MulWide(ma, mb) ==
    LET ah == ma \div 4096
        al == ma % 4096
        bh == mb \div 4096
        bl == mb % 4096
        X == ah * bh
        Y == ah * bl + al * bh
        low == (Y % 256) * 4096 + al * bl
    IN <<X * 16 + (Y \div 256) + (low \div 2^20), low % 2^20 # 0>>

F32Mul(a, b) ==
    IF IsNaN(a) \/ IsNaN(b) THEN NaN
    ELSE IF IsInf(a) \/ IsInf(b)
         THEN (IF IsZero(a) \/ IsZero(b) THEN NaN ELSE Inf(a.sgn * b.sgn))
    ELSE IF IsZero(a) \/ IsZero(b) THEN Zero
    ELSE LET na == Norm(a)
             nb == Norm(b)
             p == MulWide(na[1], nb[1])
         IN RoundPack(a.sgn * b.sgn, p[1], na[2] + nb[2] + 20, p[2])

(***************************************************************************)
(* f32: /                                                                  *)
(***************************************************************************)
\* <<q, r>> after `bits` more steps of binary long division by d, from the
\* quotient q and remainder r < d so far.
RECURSIVE LongDiv(_, _, _, _)
LongDiv(q, r, d, bits) ==
    IF bits = 0 THEN <<q, r>>
    ELSE IF 2 * r >= d THEN LongDiv(2 * q + 1, 2 * r - d, d, bits - 1)
    ELSE LongDiv(2 * q, 2 * r, d, bits - 1)

F32Div(a, b) ==
    IF IsNaN(a) \/ IsNaN(b) THEN NaN
    ELSE IF IsInf(a) THEN (IF IsInf(b) THEN NaN ELSE Inf(a.sgn * b.sgn))
    ELSE IF IsInf(b) THEN Zero
    ELSE IF IsZero(b) THEN (IF IsZero(a) THEN NaN ELSE Inf(a.sgn))
    ELSE IF IsZero(a) THEN Zero
    ELSE LET na == Norm(a)
             nb == Norm(b)
             qr == LongDiv(na[1] \div nb[1], na[1] % nb[1], nb[1], 26)
         IN RoundPack(a.sgn * b.sgn, qr[1], na[2] - nb[2] - 26, qr[2] # 0)

(***************************************************************************)
(* f32: comparison and casts                                               *)
(***************************************************************************)
\* |a| < |b| for a and b not NaN.
MagLt(a, b) ==
    IF IsInf(a) THEN FALSE
    ELSE IF IsInf(b) THEN TRUE
    ELSE IF IsZero(b) THEN FALSE
    ELSE IF IsZero(a) THEN TRUE
    ELSE a.exp < b.exp \/ (a.exp = b.exp /\ a.man < b.man)

\* a < b; false when either is NaN.
F32Lt(a, b) ==
    /\ ~IsNaN(a)
    /\ ~IsNaN(b)
    /\ IF a.sgn = 1 /\ b.sgn = 1 THEN MagLt(a, b)
       ELSE IF a.sgn = -1 /\ b.sgn = -1 THEN MagLt(b, a)
       ELSE a.sgn = -1

\* a > b; false when either is NaN.
F32Gt(a, b) == F32Lt(b, a)

\* `n as f32` for a u32 n.
U32ToF32(n) == RoundPack(1, n, 0, FALSE)

\* Every u32 of 2^30 and more stands as this one value: the model's
\* integers end at 2^31 - 1, u32's at 2^32 - 1.
U32Huge == 2^30

\* `x as u32`: truncation toward zero, saturating; NaN is 0.
F32ToU32(x) ==
    IF IsNaN(x) THEN 0
    ELSE IF x.sgn = -1 THEN 0
    ELSE IF IsInf(x) THEN U32Huge
    ELSE IF x.exp >= 0
         THEN (IF x.exp > 6 THEN U32Huge ELSE x.man * 2^x.exp)
    ELSE IF -x.exp > 30 THEN 0
    ELSE x.man \div 2^(-x.exp)

\* The f32 that `parse::<f32>()` gives for the decimal string of digits n
\* with d digits after the point (n < 2^24, d <= 7): n and 10^d are both
\* f32 values, so the correctly rounded quotient is the nearest f32.
Dec(n, d) == F32Div(U32ToF32(n), U32ToF32(10^d))

\* The same, negated.
NegDec(n, d) == F32Neg(Dec(n, d))

(***************************************************************************)
(* Strings that carry numbers on the wire                                  *)
(***************************************************************************)
\* The decimal string of digits n with d digits after the point.
DecStr(n, d) == [numeric |-> TRUE, n |-> n, d |-> d]
\* A string that is no number: the empty string of Asset::default().
EmptyStr == [numeric |-> FALSE, n |-> 0, d |-> 0]

\* str.parse::<f32>(): Ok(value) or Err.
ParseF32(str) ==
    IF str.numeric THEN [ok |-> TRUE, val |-> Dec(str.n, str.d)]
    ELSE [ok |-> FALSE, val |-> NaN]

\* format!("{:.3}", x): the decimal expansion of x rounded to three places,
\* ties to even, as its sign, its whole part <<m, e>> (m * 2^e) and its
\* thousandths; "NaN" and "inf" for the values that are no number.
Fmt3(x) ==
    IF IsNaN(x)
    THEN [kind |-> "NaN", sgn |-> 1, whole |-> <<0, 0>>, milli |-> 0]
    ELSE IF IsInf(x)
    THEN [kind |-> "inf", sgn |-> x.sgn, whole |-> <<0, 0>>, milli |-> 0]
    ELSE IF x.exp >= 0
    THEN [kind |-> "num", sgn |-> x.sgn, whole |-> <<x.man, x.exp>>,
          milli |-> 0]
    ELSE LET k == -x.exp
             ip == IF k > 30 THEN 0 ELSE x.man \div 2^k
             fr == IF k > 30 THEN x.man ELSE x.man % 2^k
             n == fr * 125
             t == IF k <= 3 THEN n * 2^(3 - k)
                  ELSE IF k - 3 > 30
                  THEN (IF k - 3 = 31 /\ n > 2^30 THEN 1 ELSE 0)
                  ELSE LET q == n \div 2^(k - 3)
                           r == n % 2^(k - 3)
                           half == 2^(k - 4)
                       IN IF r > half \/ (r = half /\ q % 2 = 1)
                          THEN q + 1 ELSE q
         IN IF t = 1000
            THEN [kind |-> "num", sgn |-> x.sgn, whole |-> <<ip + 1, 0>>,
                  milli |-> 0]
            ELSE [kind |-> "num", sgn |-> x.sgn, whole |-> <<ip, 0>>,
                  milli |-> t]

(***************************************************************************)
(* Bounds and the inputs drawn from them                                   *)
(***************************************************************************)
\* The exchange accepts no more than this many orders in one run.
MaxOrders == 2

LimitValues == {NegDec(1, 0), Dec(0, 0), Dec(2, 0)}
AmountValues == {Dec(2, 0)}
GridCounts == {0, 1, 2, 3}
Pairs == {<<"ETH", "USDT">>}

Configurations ==
    [pair : Pairs, upper_limit : LimitValues, lower_limit : LimitValues,
     order_amount : AmountValues, number_of_grids : GridCounts]

\* What the exchange may answer as an `available` balance and as a price.
AvailableStrings == {DecStr(4, 0), EmptyStr}
PriceStrings ==
    {DecStr(0, 0), DecStr(1, 0), DecStr(2, 0), DecStr(3, 0), EmptyStr}

(***************************************************************************)
(* State                                                                   *)
(***************************************************************************)
VARIABLES
    config,         \* Gridbot.config
    order_ids,      \* Gridbot.order_ids: the tracked-order set, a Vec
    pc,             \* where the one thread of the program stands
    balances,       \* initialize: the balances fetched so far
    current_price,  \* initialize: the price fetched, NoPrice before
    buy_orders,     \* initialize: the buy ladder
    sell_orders,    \* initialize: the sell ladder
    placed,         \* initialize: ladder orders placed so far, buys first
    to_remove,      \* process: the ids marked in this sweep
    pos,            \* process: index in order_ids of the id polled next
    orders,         \* the exchange: its orders, the id of each its index
    op,             \* the operation called last: initialize or process
    result,         \* how it ended: Ok, Err, panic; running until then
    ids0,           \* order_ids when that operation was called
    calls,          \* the API Client calls it has made, in order
    retired,        \* ids that an earlier sweep fetched FILLED or CANCELLED
    quiet,          \* completed sweeps in a row with the exchange unchanged
    net             \* the clock, and the requests sent, the answer
                    \* received and the value returned by the API Client
                    \* call made last

vars == <<config, order_ids, pc, balances, current_price, buy_orders,
          sell_orders, placed, to_remove, pos, orders, op, result, ids0,
          calls, retired, quiet, net>>

locals == <<balances, current_price, buy_orders, sell_orders, placed,
            to_remove, pos>>

NoPrice == [cls |-> "none", sgn |-> 1, man |-> 0, exp |-> 0]

\* No value returned yet, and the network before any request.
NoValue == [cls |-> "none"]
NoNet ==
    [clock |-> 0, sent |-> <<>>, answer |-> NoValue, value |-> NoValue]

(***************************************************************************)
(* Gridbot::initialize: the checks and the ladder (pure)                   *)
(***************************************************************************)
\* The pair split at "_": coins[0] is the base, coins[1] the quote currency.
coins == config.pair

\* The check of the upper limit alone.
LimitsNegative_UpperOnly == F32Lt(config.upper_limit, Zero)

\* self.config.upper_limit < 0.0 || self.config.lower_limit < 0.0
LimitsNegative ==
    F32Lt(config.upper_limit, Zero) \/ F32Lt(config.lower_limit, Zero)

LimitsInverted == F32Lt(config.upper_limit, config.lower_limit)

\* current_price < lower_limit || current_price > upper_limit
PriceOutOfLimits(price) ==
    F32Lt(price, config.lower_limit) \/ F32Gt(price, config.upper_limit)

order_step ==
    F32Div(F32Sub(config.upper_limit, config.lower_limit),
           U32ToF32(config.number_of_grids))

\* One level more than the quotient allows.
num_sell_orders_OneMore(price) ==
    F32ToU32(F32Div(F32Sub(config.upper_limit, price), order_step)) + 1

\* The casts `as u32` of the two quotients.
num_sell_orders(price) ==
    F32ToU32(F32Div(F32Sub(config.upper_limit, price), order_step))

num_buy_orders(price) ==
    F32ToU32(F32Div(F32Sub(price, config.lower_limit), order_step))

\* The price of the i-th sell order, and of the i-th buy order.
SellLevel(price, i) == F32Add(price, F32Mul(U32ToF32(i), order_step))
\* The buy level with the sign of the sell level.
BuyLevel_Added(price, i) == F32Add(price, F32Mul(U32ToF32(i), order_step))
BuyLevel(price, i) == F32Sub(price, F32Mul(U32ToF32(i), order_step))

\* The loop `for i in 1..(num_sell_orders + 1)` from its i-th round on:
\* the ladder so far and the coins it needs.
RECURSIVE SellLoop(_, _, _, _, _)
SellLoop(price, i, end, ladder, required) ==
    IF i >= end THEN [ladder |-> ladder, required |-> required]
    ELSE SellLoop(price, i + 1, end, Append(ladder, SellLevel(price, i)),
                  F32Add(required, config.order_amount))

\* The loop `for i in 1..(num_buy_orders + 1)`.
RECURSIVE BuyLoop(_, _, _, _, _)
BuyLoop(price, i, end, ladder, required) ==
    IF i >= end THEN [ladder |-> ladder, required |-> required]
    ELSE LET order == BuyLevel(price, i) IN
         BuyLoop(price, i + 1, end, Append(ladder, order),
                 F32Add(required, F32Mul(config.order_amount, order)))

\* sell_orders with required_sell_coins, buy_orders with required_buy_coins.
SellSide(price) == SellLoop(price, 1, num_sell_orders(price) + 1, <<>>, Zero)
BuySide(price) == BuyLoop(price, 1, num_buy_orders(price) + 1, <<>>, Zero)

\* The two balance checks.
SellBalanceShort(required) == F32Lt(balances[1], required)
\* The second check made on the balance of the first coin.
BuyBalanceShort_BaseCoin(required) == F32Lt(balances[1], required)
BuyBalanceShort(required) == F32Lt(balances[2], required)

(***************************************************************************)
(* What the exchange answers                                               *)
(***************************************************************************)
SeqsUpTo1(S) == {<<>>} \cup {<<a>> : a \in S}

\* Asset, as far as the program reads it.
Assets ==
    [currency_code : {"ETH", "USDT", "None"}, total : {DecStr(4, 0)},
     available : AvailableStrings, in_order : {DecStr(0, 0)}]

\* Answers to GET /account/balances.
BalanceResponses ==
    {[kind |-> k, assets |-> <<>>] : k \in {"transport_error", "undecodable"}}
    \cup {[kind |-> "assets", assets |-> l] : l \in SeqsUpTo1(Assets)}

\* Answers to GET /market-price: the list of Price, here of price strings.
PriceResponses ==
    {[kind |-> k, prices |-> <<>>] : k \in {"transport_error", "undecodable"}}
    \cup {[kind |-> "prices", prices |-> l] : l \in SeqsUpTo1(PriceStrings)}

\* How a POST /order/add/ ends: answered with the new order, or failed (no
\* answer, or one that does not decode) with the order placed or not.
AddOrderOutcomes == {"ok", "failed_placed", "failed_not_placed"}

\* How a POST /order/details ends.
OrderDetailsOutcomes == {"ok", "transport_error", "undecodable"}

\* OrderStatus, and the changes the exchange makes to an order's status.
OrderStatus == {"open", "canceled", "filled", "partial_fill", "cancelling"}
StatusAfter(s) ==
    CASE s = "open" -> {"partial_fill", "filled", "cancelling", "canceled"}
      [] s = "partial_fill" -> {"filled", "cancelling", "canceled"}
      [] s = "cancelling" -> {"canceled"}
      [] OTHER -> {}

(***************************************************************************)
(* Client                                                                  *)
(***************************************************************************)
\* One entry of the log of calls: the function, its argument (for
\* get_order_details, with the status fetched), and whether it returned Ok.
Call(f, a, ok) == [fn |-> f, arg |-> a, ok |-> ok]

\* A default Asset of zeros.
DefaultAsset_Zeros ==
    [currency_code |-> "None", total |-> DecStr(0, 0),
     available |-> DecStr(0, 0), in_order |-> DecStr(0, 0)]

\* Asset::default(): every String empty, every Option None.
DefaultAsset ==
    [currency_code |-> "None", total |-> EmptyStr, available |-> EmptyStr,
     in_order |-> EmptyStr]

\* Client::get_balance on a decoded list: the first asset of that currency,
\* or the default Asset.
get_balance(assets, coin) ==
    LET hits == {i \in 1..Len(assets) : assets[i].currency_code = coin} IN
    IF hits = {} THEN DefaultAsset
    ELSE assets[CHOOSE i \in hits : \A j \in hits : i <= j]

\* Client::get_available_balance on a decoded list.
get_available_balance(assets, coin) ==
    LET parsed == ParseF32(get_balance(assets, coin).available) IN
    IF parsed.ok THEN parsed.val ELSE Zero

\* The call with OrderType::MARKET.
LimitOrder_Market(side, size, price) ==
    [pair |-> config.pair, type |-> "market", side |-> side, size |-> size,
     price |-> price]

\* The arguments of the add_order calls of initialize: a LIMIT order.
LimitOrder(side, size, price) ==
    [pair |-> config.pair, type |-> "limit", side |-> side, size |-> size,
     price |-> price]

\* The order the exchange books for the body that add_order sends.
NewOrder(args) ==
    [order_symbol |-> args.pair, order_side |-> args.side,
     type |-> args.type, order_size |-> Fmt3(args.size),
     order_price |-> Fmt3(args.price), status |-> "open"]

Range(s) == {s[i] : i \in 1..Len(s)}

\* A retain that drops the first marked id only.
Retain_FirstOnly(ids, marked) ==
    SelectSeq(ids, LAMBDA x : marked = <<>> \/ x # marked[1])

\* A retain that keeps every id.
Retain_Everything(ids, marked) == ids

\* self.order_ids.retain(|x| !to_remove.contains(x))
Retain(ids, marked) == SelectSeq(ids, LAMBDA x : x \notin Range(marked))

\* The match without its canceled arm.
IsTerminal_FilledOnly(status) == status = "filled"

\* The match with an arm for cancelling too.
IsTerminal_WithCancelling(status) ==
    status \in {"filled", "canceled", "cancelling"}

\* The arms of the match that mark an id: filled, canceled.
IsTerminal(status) == status \in {"filled", "canceled"}

(***************************************************************************)
(* Init                                                                    *)
(***************************************************************************)
Init ==
    /\ config \in Configurations
    /\ order_ids = <<>>
    /\ pc = "idle"
    /\ balances = <<>>
    /\ current_price = NoPrice
    /\ buy_orders = <<>>
    /\ sell_orders = <<>>
    /\ placed = 0
    /\ to_remove = <<>>
    /\ pos = 0
    /\ orders = <<>>
    /\ op = "none"
    /\ result = "none"
    /\ ids0 = <<>>
    /\ calls = <<>>
    /\ retired = {}
    /\ quiet = 0
    /\ net = NoNet

\* A panic unwinds the thread: nothing of the program runs after it.
Panic ==
    /\ pc' = "panicked"
    /\ result' = "panic"

\* The failure logged and the loop left running.
AddOrderFailed_Continues == UNCHANGED <<pc, result>>

\* add_order failed: the unwrap in add_order, or the expect of initialize.
AddOrderFailed == Panic

\* The failure swallowed: the sweep ends as if complete.
OrderDetailsFailed_Skips ==
    /\ pc' = "returned"
    /\ result' = "Ok"

\* get_order_details failed: its unwrap, or the expect of process.
OrderDetailsFailed == Panic

\* The operation returns r to its caller, its locals still alive.
Return(r) ==
    /\ pc' = "returned"
    /\ result' = r

\* The ids that the sweep logged fetched as FILLED or CANCELLED.
FetchedTerminal(log) ==
    {log[i].arg.id : i \in {j \in 1..Len(log) :
        /\ log[j].fn = "get_order_details"
        /\ log[j].ok
        /\ log[j].arg.status \in {"filled", "canceled"}}}

\* Control is back in the caller: the locals of the call are dropped.
Resume ==
    /\ pc = "returned"
    /\ pc' = "idle"
    /\ op' = "none"
    /\ result' = "none"
    /\ ids0' = <<>>
    /\ calls' = <<>>
    /\ balances' = <<>>
    /\ current_price' = NoPrice
    /\ buy_orders' = <<>>
    /\ sell_orders' = <<>>
    /\ placed' = 0
    /\ to_remove' = <<>>
    /\ pos' = 0
    /\ retired' = IF op = "process" /\ result = "Ok"
                  THEN retired \cup FetchedTerminal(calls) ELSE retired
    /\ UNCHANGED <<net, config, order_ids, orders, quiet>>

(***************************************************************************)
(* Gridbot::initialize                                                     *)
(***************************************************************************)
\* The call, up to the first request: the checks of the limits.
InitializeStart ==
    /\ pc = "idle"
    /\ op' = "initialize"
    /\ ids0' = order_ids
    /\ quiet' = 0
    /\ IF LimitsNegative \/ LimitsInverted
       THEN Return("Err")
       ELSE pc' = "get_balances" /\ result' = "running"
    /\ UNCHANGED <<net, config, order_ids, locals, orders, calls, retired>>

\* One get_available_balance of the map over coins.  A request that fails,
\* or an answer that does not decode, panics in an unwrap of get_balances
\* or get_balance.
GetAvailableBalance(resp) ==
    /\ pc = "get_balances"
    /\ LET coin == coins[Len(balances) + 1] IN
       /\ calls' = Append(calls, Call("get_available_balance", coin,
                                     resp.kind = "assets"))
       /\ IF resp.kind # "assets"
          THEN Panic /\ UNCHANGED balances
          ELSE /\ balances' = Append(balances,
                                     get_available_balance(resp.assets, coin))
               /\ pc' = IF Len(balances') = Len(coins) THEN "get_price" ELSE pc
               /\ UNCHANGED result
    /\ UNCHANGED <<net, config, order_ids, current_price, buy_orders, sell_orders,
                   placed, to_remove, pos, orders, op, ids0, retired, quiet>>

\* Whether get_market_price returns a price: the request succeeds, the
\* answer decodes, the list has a first element and its price parses.
PriceFetched(resp) ==
    /\ resp.kind = "prices"
    /\ resp.prices # <<>>
    /\ ParseF32(resp.prices[1]).ok

\* get_market_price and everything up to the first add_order: the price
\* check, the ladder, the balance checks.
GetMarketPrice(resp) ==
    /\ pc = "get_price"
    /\ calls' = Append(calls, Call("get_market_price", config.pair,
                                 PriceFetched(resp)))
    /\ IF ~PriceFetched(resp)
       THEN Panic /\ UNCHANGED <<current_price, buy_orders, sell_orders>>
       ELSE LET price == ParseF32(resp.prices[1]).val
                sell == SellSide(price)
                buy == BuySide(price)
            IN
            /\ current_price' = price
            /\ IF PriceOutOfLimits(price)
               THEN Return("Err") /\ UNCHANGED <<buy_orders, sell_orders>>
               ELSE IF SellBalanceShort(sell.required)
               THEN Return("Err") /\ UNCHANGED <<buy_orders, sell_orders>>
               ELSE IF Len(balances) < 2
               THEN Panic /\ UNCHANGED <<buy_orders, sell_orders>>
               ELSE IF BuyBalanceShort(buy.required)
               THEN Return("Err") /\ UNCHANGED <<buy_orders, sell_orders>>
               ELSE /\ buy_orders' = buy.ladder
                    /\ sell_orders' = sell.ladder
                    /\ IF buy_orders' = <<>> /\ sell_orders' = <<>>
                       THEN Return("Ok")
                       ELSE pc' = "add_orders" /\ UNCHANGED result
    /\ UNCHANGED <<net, config, order_ids, balances, placed, to_remove, pos,
                   orders, op, ids0, retired, quiet>>

\* The sell loop run before the buy loop.
PlacingOrder_SellsFirst(n) ==
    IF n < Len(sell_orders)
    THEN [side |-> "SELL", price |-> sell_orders[n + 1]]
    ELSE [side |-> "BUY", price |-> buy_orders[n - Len(sell_orders) + 1]]

\* The side and price of the order placed after n others: the loop over
\* buy_orders runs first, the loop over sell_orders second.
PlacingOrder(n) ==
    IF n < Len(buy_orders)
    THEN [side |-> "BUY", price |-> buy_orders[n + 1]]
    ELSE [side |-> "SELL", price |-> sell_orders[n - Len(buy_orders) + 1]]

\* A push made twice.
TrackOrder_Twice(ids, id) == Append(Append(ids, id), id)

\* self.order_ids.push(order.order_id)
TrackOrder(ids, id) == Append(ids, id)

\* One round of the two placing loops: the buy ladder first, then the
\* sell ladder.  A failed add_order panics in its unwrap or in the expect.
AddOrder(outcome) ==
    /\ pc = "add_orders"
    /\ Len(orders) < MaxOrders
    /\ LET next == PlacingOrder(placed)
           args == LimitOrder(next.side, config.order_amount, next.price)
       IN
       /\ calls' = Append(calls, Call("add_order", args, outcome = "ok"))
       /\ orders' = IF outcome = "failed_not_placed" THEN orders
                    ELSE Append(orders, NewOrder(args))
       /\ IF outcome = "ok"
          THEN /\ order_ids' = TrackOrder(order_ids, Len(orders'))
               /\ placed' = placed + 1
               /\ IF placed' = Len(buy_orders) + Len(sell_orders)
                  THEN Return("Ok")
                  ELSE UNCHANGED <<pc, result>>
          ELSE AddOrderFailed /\ UNCHANGED <<order_ids, placed>>
    /\ UNCHANGED <<net, config, balances, current_price, buy_orders, sell_orders,
                   to_remove, pos, op, ids0, retired, quiet>>

(***************************************************************************)
(* Gridbot::process                                                        *)
(***************************************************************************)
\* A sweep that cancels what it leaves.
FinishSweep_Cancels(marked) ==
    /\ order_ids' = Retain(order_ids, marked)
    /\ orders' = [i \in 1..Len(orders) |->
                      [orders[i] EXCEPT !.status = "canceled"]]
    /\ quiet' = IF quiet < 0 THEN 0 ELSE IF quiet >= 2 THEN 2 ELSE quiet + 1
    /\ Return("Ok")

\* The end of a sweep: the retain, and Ok.  Nothing is sent.
FinishSweep(marked) ==
    /\ order_ids' = Retain(order_ids, marked)
    /\ orders' = orders
    /\ quiet' = IF quiet < 0 THEN 0 ELSE IF quiet >= 2 THEN 2 ELSE quiet + 1
    /\ Return("Ok")

\* The call, up to the first request.
ProcessStart ==
    /\ pc = "idle"
    /\ op' = "process"
    /\ ids0' = order_ids
    /\ IF order_ids = <<>>
       THEN FinishSweep(<<>>) /\ UNCHANGED <<pos, retired>>
       ELSE /\ pc' = "get_order_details"
            /\ result' = "running"
            /\ pos' = 1
            /\ UNCHANGED <<order_ids, orders, retired, quiet>>
    /\ UNCHANGED <<net, config, balances, current_price, buy_orders, sell_orders,
                   placed, to_remove, calls>>

\* One round of the sweep: get_order_details of the next tracked id, the
\* match on its status, and after the last id the retain.
GetOrderDetails(outcome) ==
    /\ pc = "get_order_details"
    /\ LET id == order_ids[pos] IN
       /\ calls' = Append(calls,
               Call("get_order_details",
                    [id |-> id,
                     status |-> IF outcome = "ok" THEN orders[id].status
                                ELSE "none"],
                    outcome = "ok"))
       /\ IF outcome # "ok"
          THEN /\ OrderDetailsFailed
               /\ UNCHANGED <<order_ids, to_remove, pos, orders, retired, quiet>>
          ELSE /\ to_remove' = IF IsTerminal(orders[id].status)
                               THEN Append(to_remove, id) ELSE to_remove
               /\ IF pos = Len(order_ids)
                  THEN FinishSweep(to_remove') /\ UNCHANGED <<pos, retired>>
                  ELSE /\ pos' = pos + 1
                       /\ UNCHANGED <<order_ids, pc, result, orders, retired,
                                      quiet>>
    /\ UNCHANGED <<net, config, balances, current_price, buy_orders, sell_orders,
                   placed, op, ids0>>

(***************************************************************************)
(* The exchange                                                            *)
(***************************************************************************)
\* The exchange moves an order on: a fill, a partial fill, a cancellation.
ExchangeAdvance(id, status) ==
    /\ pc \notin {"returned", "panicked"}
    /\ id \in 1..Len(orders)
    /\ status \in StatusAfter(orders[id].status)
    /\ orders' = [orders EXCEPT ![id].status = status]
    /\ quiet' = IF pc = "get_order_details" THEN -1 ELSE 0
    /\ UNCHANGED <<net, config, order_ids, pc, locals, op, result, ids0, calls,
                   retired>>

Next ==
    \/ InitializeStart
    \/ \E resp \in BalanceResponses : GetAvailableBalance(resp)
    \/ \E resp \in PriceResponses : GetMarketPrice(resp)
    \/ \E outcome \in AddOrderOutcomes : AddOrder(outcome)
    \/ ProcessStart
    \/ \E outcome \in OrderDetailsOutcomes : GetOrderDetails(outcome)
    \/ Resume
    \/ \E id \in 1..MaxOrders, status \in OrderStatus : ExchangeAdvance(id, status)

Spec == Init /\ [][Next]_vars

(***************************************************************************)
(* Terms the claims are stated in                                          *)
(***************************************************************************)
\* The add_order calls of the operation, in order.
AddOrderLog == SelectSeq(calls, LAMBDA c : c.fn = "add_order")

\* a >= b, a <= b, for f32.
F32Ge(a, b) == ~IsNaN(a) /\ ~IsNaN(b) /\ ~F32Lt(a, b)
F32Le(a, b) == F32Ge(b, a)

\* The price was fetched, and lies below or above the configured limits.
PriceBelowLower ==
    current_price # NoPrice /\ F32Lt(current_price, config.lower_limit)
PriceAboveUpper ==
    current_price # NoPrice /\ F32Lt(config.upper_limit, current_price)

\* Left-to-right f32 sum of a sequence.
RECURSIVE F32Sum(_)
F32Sum(s) ==
    IF s = <<>> THEN Zero
    ELSE F32Add(F32Sum(SubSeq(s, 1, Len(s) - 1)), s[Len(s)])

\* initialize has the price, and the limits and the price passed its checks.
PricedWithinLimits ==
    /\ op = "initialize"
    /\ current_price # NoPrice
    /\ F32Le(config.lower_limit, current_price)
    /\ F32Le(current_price, config.upper_limit)

\* order_amount * num_sell_orders, and order_amount * sum(buy levels).
RequiredSellCoin ==
    F32Mul(config.order_amount, U32ToF32(num_sell_orders(current_price)))
RequiredBuyCoin ==
    F32Mul(config.order_amount, F32Sum(BuySide(current_price).ladder))

(***************************************************************************)
(* C1                                                                      *)
(***************************************************************************)
\* C1: initialize returns an error, has made no add_order call and has
\* left the tracked-order set as it was, whenever upper_limit < 0,
\* lower_limit < 0, upper_limit < lower_limit, or the fetched price is
\* below lower_limit or above upper_limit.
C1_RejectsBadLimitsAndPrice ==
    (/\ op = "initialize"
     /\ \/ F32Lt(config.upper_limit, Zero)
        \/ F32Lt(config.lower_limit, Zero)
        \/ F32Lt(config.upper_limit, config.lower_limit)
        \/ PriceBelowLower
        \/ PriceAboveUpper)
    => /\ pc = "returned"
       /\ result = "Err"
       /\ AddOrderLog = <<>>
       /\ order_ids = ids0

\* A second initialize, with orders tracked, rejected for a price above the
\* upper limit.
C1_Witness ==
    /\ op = "initialize"
    /\ result = "Err"
    /\ PriceAboveUpper
    /\ order_ids # <<>>

(***************************************************************************)
(* C2                                                                      *)
(***************************************************************************)
\* C2: initialize makes an add_order call only if the base balance is at
\* least order_amount * num_sell_orders and the quote balance at least
\* order_amount * sum(buy levels); with either balance smaller it returns
\* an error and has made no add_order call.
C2_BalancesSuffice ==
    PricedWithinLimits =>
        /\ AddOrderLog # <<>> =>
              /\ F32Ge(balances[1], RequiredSellCoin)
              /\ F32Ge(balances[2], RequiredBuyCoin)
        /\ (\/ F32Lt(balances[1], RequiredSellCoin)
            \/ F32Lt(balances[2], RequiredBuyCoin)) =>
              /\ pc = "returned"
              /\ result = "Err"
              /\ AddOrderLog = <<>>

\* Rejected for the quote balance alone: the base balance was enough.
C2_Witness ==
    /\ PricedWithinLimits
    /\ result = "Err"
    /\ F32Ge(balances[1], RequiredSellCoin)
    /\ F32Lt(balances[2], RequiredBuyCoin)
    /\ num_sell_orders(current_price) > 0

(***************************************************************************)
(* C3                                                                      *)
(***************************************************************************)
\* C3: when a sweep of process returns, every id it fetched as FILLED or
\* CANCELLED is out of the tracked-order set; and no sweep asks
\* get_order_details for an id that an earlier sweep fetched as FILLED or
\* CANCELLED.
C3_TerminalRemovedOnce ==
    op = "process" =>
        /\ pc = "returned" =>
              \A id \in FetchedTerminal(calls) : id \notin Range(order_ids)
        /\ \A i \in 1..Len(calls) :
              calls[i].fn = "get_order_details" => calls[i].arg.id \notin retired

\* A later sweep, after one that retired an id, retires another.
C3_Witness ==
    /\ op = "process"
    /\ pc = "returned"
    /\ retired # {}
    /\ FetchedTerminal(calls) # {}

(***************************************************************************)
(* C4                                                                      *)
(***************************************************************************)
\* C4: a sweep of process that follows another sweep, with no status
\* changed on the exchange since that one began, returns with the
\* tracked-order set as it found it.
C4_PollingIdempotent ==
    (op = "process" /\ pc = "returned" /\ quiet >= 2) => order_ids = ids0

\* The second of two such sweeps, the first having retired an id and left
\* another tracked.
C4_Witness ==
    /\ op = "process"
    /\ pc = "returned"
    /\ quiet >= 2
    /\ order_ids # <<>>
    /\ retired # {}

(***************************************************************************)
(* C5                                                                      *)
(***************************************************************************)
\* C5: a step of process leaves the orders of the exchange and the
\* configuration as they are, adds no id to the tracked-order set, and the
\* only API Client call process makes is get_order_details.
C5_ProcessOnlyObserves ==
    [][(op' = "process" /\ (pc' # pc \/ calls' # calls)) =>
          /\ orders' = orders
          /\ config' = config
          /\ Range(order_ids') \subseteq Range(order_ids)
          /\ Len(order_ids') <= Len(order_ids)
          /\ \A i \in 1..Len(calls') : calls'[i].fn = "get_order_details"]_vars

\* A sweep that shrank the tracked-order set.
C5_Witness ==
    /\ op = "process"
    /\ pc = "returned"
    /\ Len(order_ids) < Len(ids0)
    /\ Len(orders) = MaxOrders

(***************************************************************************)
(* The ladder alone: the computation of initialize between its checks of   *)
(* the price and of the balances, over a wider range of configurations     *)
(***************************************************************************)
GridLowerLimits == {Dec(0, 0), Dec(1, 0), Dec(95, 0), Dec(100, 0), Dec(10000, 0)}
GridUpperLimits == {Dec(1, 0), Dec(2, 0), Dec(200, 0), Dec(390, 0), Dec(54000, 0)}
GridGridCounts == {0, 1, 2, 3, 7, 10, 25}
GridPrices ==
    {Dec(0, 0), Dec(1, 0), Dec(15, 1), Dec(100, 0), Dec(150, 0), Dec(155, 0),
     Dec(200, 0), Dec(3074, 1), Dec(4142857, 2)}

GridConfigurations ==
    [pair : Pairs, upper_limit : GridUpperLimits,
     lower_limit : GridLowerLimits, order_amount : AmountValues,
     number_of_grids : GridGridCounts]

InitGrid ==
    /\ config \in GridConfigurations
    /\ order_ids = <<>>
    /\ pc = "idle"
    /\ balances = <<>>
    /\ current_price = NoPrice
    /\ buy_orders = <<>>
    /\ sell_orders = <<>>
    /\ placed = 0
    /\ to_remove = <<>>
    /\ pos = 0
    /\ orders = <<>>
    /\ op = "none"
    /\ result = "none"
    /\ ids0 = <<>>
    /\ calls = <<>>
    /\ retired = {}
    /\ quiet = 0
    /\ net = NoNet

\* initialize from its checks of the limits and the price to the end of
\* the two loops that build the ladder.
ComputeLadder(price) ==
    /\ pc = "idle"
    /\ ~(LimitsNegative \/ LimitsInverted)
    /\ ~PriceOutOfLimits(price)
    /\ pc' = "ladder"
    /\ op' = "initialize"
    /\ result' = "running"
    /\ current_price' = price
    /\ sell_orders' = SellSide(price).ladder
    /\ buy_orders' = BuySide(price).ladder
    /\ UNCHANGED <<net, config, order_ids, balances, placed, to_remove, pos,
                   orders, ids0, calls, retired, quiet>>

\* The rest of initialize from the ladder: the balances being what the
\* ladder requires, both balance checks pass, and the exchange booking
\* every order, the two placing loops run to their end.
SubmitLadder ==
    /\ pc = "ladder"
    /\ LET total == Len(buy_orders) + Len(sell_orders)
           funds == <<SellSide(current_price).required,
                      BuySide(current_price).required>>
           args(n) == LimitOrder(PlacingOrder(n - 1).side, config.order_amount,
                                 PlacingOrder(n - 1).price)
       IN
       /\ ~F32Lt(funds[1], SellSide(current_price).required)
       /\ ~F32Lt(funds[2], BuySide(current_price).required)
       /\ balances' = funds
       /\ calls' = IF total = 0 THEN <<>>
                   ELSE [n \in 1..total |-> Call("add_order", args(n), TRUE)]
       /\ orders' = IF total = 0 THEN <<>>
                    ELSE [n \in 1..total |-> NewOrder(args(n))]
       /\ order_ids' = IF total = 0 THEN <<>> ELSE [n \in 1..total |-> n]
       /\ placed' = total
    /\ Return("Ok")
    /\ UNCHANGED <<net, config, current_price, buy_orders, sell_orders,
                   to_remove, pos, op, ids0, retired, quiet>>

\* The ladder goes out of scope, and with it what was placed from it.
DropLadder ==
    /\ pc \in {"ladder", "returned"}
    /\ pc' = "idle"
    /\ op' = "none"
    /\ result' = "none"
    /\ current_price' = NoPrice
    /\ sell_orders' = <<>>
    /\ buy_orders' = <<>>
    /\ balances' = <<>>
    /\ calls' = <<>>
    /\ orders' = <<>>
    /\ order_ids' = <<>>
    /\ placed' = 0
    /\ UNCHANGED <<net, config, to_remove, pos, ids0, retired, quiet>>

NextGrid ==
    \/ \E price \in GridPrices : ComputeLadder(price)
    \/ SubmitLadder
    \/ DropLadder

SpecGrid == InitGrid /\ [][NextGrid]_vars

(***************************************************************************)
(* C6                                                                      *)
(***************************************************************************)
\* floor(q) of an f32 q, 0 <= q < number_of_grids + 2, by comparison with
\* the whole numbers.
FloorOf(q) ==
    CHOOSE k \in 0..(config.number_of_grids + 1) :
        F32Le(U32ToF32(k), q) /\ F32Lt(q, U32ToF32(k + 1))

\* (upper - price) / order_step and (price - lower) / order_step.
SellQuotient ==
    F32Div(F32Sub(config.upper_limit, current_price), order_step)
BuyQuotient ==
    F32Div(F32Sub(current_price, config.lower_limit), order_step)

\* The configuration and price of the example.
ExampleLadder ==
    /\ pc = "ladder"
    /\ config.lower_limit = Dec(100, 0)
    /\ config.upper_limit = Dec(200, 0)
    /\ config.number_of_grids = 10
    /\ current_price = Dec(150, 0)

IsSmallWhole(x) ==
    /\ IsFinite(x)
    /\ x.sgn = 1
    /\ IsZero(x) \/ x.exp >= 0 \/ (x.exp >= -30 /\ x.man % 2^(-x.exp) = 0)
    /\ F32Lt(x, U32ToF32(2^22))

\* The levels of both sides.
Levels == Range(buy_orders) \cup Range(sell_orders)

\* upper_limit == lower_limit + n * step for n = number_of_grids > 0, and
\* the price strictly between the limits.
SteppedRangeAroundPrice ==
    /\ pc = "ladder"
    /\ config.number_of_grids > 0
    /\ F32Gt(order_step, Zero)
    /\ config.upper_limit =
          F32Add(config.lower_limit,
                 F32Mul(U32ToF32(config.number_of_grids), order_step))
    /\ F32Lt(config.lower_limit, current_price)
    /\ F32Lt(current_price, config.upper_limit)

LevelsWithinClosedRangeAlways ==
    SteppedRangeAroundPrice =>
        \A level \in Levels :
            /\ F32Le(config.lower_limit, level)
            /\ F32Le(level, config.upper_limit)

(***************************************************************************)
(* C8                                                                      *)
(***************************************************************************)
\* The ids that initialize has appended to the tracked-order set.
NewIds == SubSeq(order_ids, Len(ids0) + 1, Len(order_ids))

\* The k-th add_order call asked for a LIMIT order of size order_amount, of
\* the given side and price.
AskedFor(k, side, price) ==
    /\ AddOrderLog[k].arg.pair = config.pair
    /\ AddOrderLog[k].arg.type = "limit"
    /\ AddOrderLog[k].arg.side = side
    /\ AddOrderLog[k].arg.size = config.order_amount
    /\ AddOrderLog[k].arg.price = price

\* The order of the exchange under id is the one the k-th add_order call
\* sent, whatever its status by now.
BookedAs(id, k) ==
    /\ id \in 1..Len(orders)
    /\ [orders[id] EXCEPT !.status = "open"] = NewOrder(AddOrderLog[k].arg)

\* C8: when initialize returns Ok it has made one add_order call per buy
\* level, a LIMIT BUY of size order_amount at that level, then one per sell
\* level, a LIMIT SELL of size order_amount at that level, and the
\* tracked-order set is what it was followed by the ids the exchange
\* returned, one per call, each the id of the order of that call: from an
\* empty set, exactly num_buy_orders + num_sell_orders ids.
C8_OneLimitOrderPerLevel ==
    (op = "initialize" /\ pc = "returned" /\ result = "Ok") =>
        LET nb == num_buy_orders(current_price)
            ns == num_sell_orders(current_price)
        IN
        /\ Len(buy_orders) = nb
        /\ Len(sell_orders) = ns
        /\ Len(AddOrderLog) = nb + ns
        /\ \A k \in 1..nb : AskedFor(k, "BUY", buy_orders[k])
        /\ \A k \in 1..ns : AskedFor(nb + k, "SELL", sell_orders[k])
        /\ Len(order_ids) = Len(ids0) + nb + ns
        /\ SubSeq(order_ids, 1, Len(ids0)) = ids0
        /\ \A k \in 1..(nb + ns) : BookedAs(NewIds[k], k)
        /\ \A j, k \in 1..(nb + ns) : j # k => NewIds[j] # NewIds[k]
        /\ ids0 = <<>> => Len(order_ids) = nb + ns

\* A first initialize that placed a buy and a sell.
C8_Witness ==
    /\ op = "initialize"
    /\ pc = "returned"
    /\ result = "Ok"
    /\ ids0 = <<>>
    /\ Len(buy_orders) >= 1
    /\ Len(sell_orders) >= 1
    /\ Len(order_ids) = Len(buy_orders) + Len(sell_orders)

(***************************************************************************)
(* C9                                                                      *)
(***************************************************************************)
\* C9: a failed add_order call of initialize is the last call initialize
\* makes: initialize is aborted, no cancel_order call is made, and the
\* orders of the calls that succeeded before it stay on the exchange,
\* their ids tracked.
C9_FailedPlacementAborts ==
    \A k \in 1..Len(calls) :
        (calls[k].fn = "add_order" /\ ~calls[k].ok) =>
            /\ k = Len(calls)
            /\ pc = "panicked"
            /\ \A j \in 1..Len(calls) : calls[j].fn # "cancel_order"
            /\ \A j \in 1..(Len(AddOrderLog) - 1) : AddOrderLog[j].ok
            /\ Len(order_ids) = Len(ids0) + Len(AddOrderLog) - 1
            /\ SubSeq(order_ids, 1, Len(ids0)) = ids0
            /\ \A j \in 1..(Len(AddOrderLog) - 1) : BookedAs(NewIds[j], j)

\* The second add_order call failed after the first succeeded.
C9_Witness ==
    /\ op = "initialize"
    /\ pc = "panicked"
    /\ Len(AddOrderLog) = 2
    /\ AddOrderLog[1].ok
    /\ ~AddOrderLog[2].ok
    /\ Len(order_ids) = Len(ids0) + 1

(***************************************************************************)
(* C10                                                                     *)
(***************************************************************************)
\* C10: a failed get_order_details call of process is the last call of the
\* sweep: the failure leaves process as a panic, no later id is polled,
\* and the tracked-order set is what it was when the sweep began, the ids
\* fetched as FILLED or CANCELLED before the failure included.
C10_LookupFailureIsFatal ==
    \A k \in 1..Len(calls) :
        (calls[k].fn = "get_order_details" /\ ~calls[k].ok) =>
            /\ k = Len(calls)
            /\ pc = "panicked"
            /\ result = "panic"
            /\ order_ids = ids0

\* The lookup of the second id failed after the first id was fetched as
\* FILLED or CANCELLED.
C10_Witness ==
    /\ op = "process"
    /\ pc = "panicked"
    /\ Len(calls) = 2
    /\ FetchedTerminal(calls) # {}
    /\ ~calls[2].ok
    /\ Len(order_ids) = 2

(***************************************************************************)
(* The API Client on the wire: one call of one operation at a time, with   *)
(* the clock it reads and the request it sends                             *)
(***************************************************************************)
\* The last millisecond of the clock.
MaxClock == 2

\* Strings built by format!: a query string or a JSON body, as the list of
\* its fields; and no body.
QueryStr(fields) == [fmt |-> "query", fields |-> fields]
JsonStr(fields) == [fmt |-> "json", fields |-> fields]
NoBody == [fmt |-> "none", fields |-> <<>>]

\* The hex HMAC-SHA256 of text under the secret key: a value that names
\* the text it was computed from.
Hmac(text) == [hmac_sha256 |-> text]

\* A transmission that sends twice.
Send_Retry(request) == <<request, request>>

\* send(): the requests that go out for one api_request.
Send(request) == <<request>>

\* Client::api_request at time now: the signature of to_sign, the
\* parameters with a timestamp pushed, the body for POST and DELETE.
api_request(req, url, to_sign, params, now) ==
    [method |-> req,
     url |-> url,
     signature |-> Hmac(to_sign),
     query |-> Append(params, <<"timestamp", now>>),
     body |-> IF req = "GET" THEN NoBody ELSE to_sign]

\* The request of each operation: to_sign built at time t1, api_request
\* entered at time t2.
BalancesRequest(t1, t2) ==
    api_request("GET", "/c/api/v1/account/balances",
                QueryStr(<<<<"timestamp", t1>>>>), <<>>, t2)
MarketPriceRequest(pair, t1, t2) ==
    api_request("GET", "/c/api/v1/market-price",
                QueryStr(<<<<"timestamp", t1>>>>), <<<<"symbol", pair>>>>, t2)
OrdersRequest(pair, t1, t2) ==
    api_request("POST", "/c/api/v1/order/list/all",
                JsonStr(<<<<"symbol", pair>>, <<"from_id", "null">>,
                          <<"limit", 50>>, <<"recvWindow", 5000>>,
                          <<"timestamp", t1>>>>), <<>>, t2)
OrderDetailsRequest(id, t1, t2) ==
    api_request("POST", "/c/api/v1/order/details",
                JsonStr(<<<<"order_id", id>>, <<"timestamp", t1>>>>), <<>>, t2)
AddOrderRequest(args, t1, t2) ==
    api_request("POST", "/c/api/v1/order/add/",
                JsonStr(<<<<"order_symbol", args.pair>>,
                          <<"order_side", args.side>>,
                          <<"type", args.type>>,
                          <<"order_size", Fmt3(args.size)>>,
                          <<"order_price", Fmt3(args.price)>>,
                          <<"timestamp", t1>>>>), <<>>, t2)
CancelOrderRequest(pair, id, t1, t2) ==
    api_request("DELETE", "/c/api/v1/order/cancel",
                JsonStr(<<<<"order_symbol", pair>>, <<"order_id", id>>,
                          <<"timestamp", t1>>>>), <<>>, t2)

\* What a call comes to: Ok(value), Err, or a panic.
Returns(outcome, value) == [outcome |-> outcome, value |-> value]

\* An operation that unwraps the transport's result and returns the
\* decoder's: get_balances, get_orders, get_order_details, add_order,
\* cancel_order.
UnwrapThenDecode(kind, value) ==
    IF kind = "transport_error" THEN Returns("panic", NoValue)
    ELSE IF kind = "undecodable" THEN Returns("Err", NoValue)
    ELSE Returns("Ok", value)

\* Client::get_balance: the unwrap of get_balances, then the search.
get_balance_returns(resp, coin) ==
    IF resp.kind # "assets" THEN Returns("panic", NoValue)
    ELSE Returns("Ok", get_balance(resp.assets, coin))

\* Client::get_available_balance: get_balance, then the parse.
get_available_balance_returns(resp, coin) ==
    IF get_balance_returns(resp, coin).outcome # "Ok"
    THEN Returns("panic", NoValue)
    ELSE Returns("Ok", get_available_balance(resp.assets, coin))

\* Client::get_market_price: price[0] and the parse are unwrapped too.
get_market_price_returns(resp) ==
    IF resp.kind = "undecodable" THEN Returns("Err", NoValue)
    ELSE IF ~PriceFetched(resp) THEN Returns("panic", NoValue)
    ELSE Returns("Ok", ParseF32(resp.prices[1]).val)

\* The answers to the POST and DELETE requests, as far as the Client
\* tells them apart.
DecodedKinds == {"transport_error", "undecodable", "decoded"}
Decoded(kind) == [cls |-> kind]

\* The arguments the calls are made with.
OrderIds == {"1", "2"}
PairNames == {"ETH_USDT"}
AddOrderArgs ==
    [pair : Pairs, type : {"limit", "market"}, side : {"BUY", "SELL"},
     size : AmountValues, price : {Dec(1, 0), Dec(15, 1)}]

InitClient ==
    /\ config \in {c \in Configurations :
                      c.lower_limit = Dec(0, 0) /\ c.upper_limit = Dec(2, 0)
                      /\ c.number_of_grids = 2}
    /\ order_ids = <<>>
    /\ pc = "idle"
    /\ balances = <<>>
    /\ current_price = NoPrice
    /\ buy_orders = <<>>
    /\ sell_orders = <<>>
    /\ placed = 0
    /\ to_remove = <<>>
    /\ pos = 0
    /\ orders = <<>>
    /\ op = "none"
    /\ result = "none"
    /\ ids0 = <<>>
    /\ calls = <<>>
    /\ retired = {}
    /\ quiet = 0
    /\ net = NoNet

\* One call of fn from its entry to its return or panic: the request goes
\* out at t2, the exchange answers resp, and the call comes to `back`.
Invoke(fn, arg, request, t2, resp, back) ==
    /\ pc \in {"idle", "returned"}
    /\ op' = fn
    /\ calls' = <<Call(fn, arg, back.outcome = "Ok")>>
    /\ net' = [clock |-> t2, sent |-> Send(request), answer |-> resp,
               value |-> back.value]
    /\ result' = back.outcome
    /\ pc' = IF back.outcome = "panic" THEN "panicked" ELSE "returned"
    /\ UNCHANGED <<config, order_ids, locals, orders, ids0, retired, quiet>>

\* The two readings of the clock in one call.
Clocks == {t \in (0..MaxClock) \X (0..MaxClock) :
              net.clock <= t[1] /\ t[1] <= t[2]}

CallGetBalances(t, resp) ==
    Invoke("get_balances", <<>>, BalancesRequest(t[1], t[2]), t[2], resp,
           UnwrapThenDecode(resp.kind, resp.assets))

CallGetBalance(t, coin, resp) ==
    Invoke("get_balance", coin, BalancesRequest(t[1], t[2]), t[2], resp,
           get_balance_returns(resp, coin))

CallGetAvailableBalance(t, coin, resp) ==
    Invoke("get_available_balance", coin, BalancesRequest(t[1], t[2]), t[2],
           resp,
           get_available_balance_returns(resp, coin))

CallGetMarketPrice(t, pair, resp) ==
    Invoke("get_market_price", pair, MarketPriceRequest(pair, t[1], t[2]),
           t[2], resp, get_market_price_returns(resp))

CallGetOrders(t, pair, kind) ==
    Invoke("get_orders", pair, OrdersRequest(pair, t[1], t[2]), t[2],
           Decoded(kind),
           UnwrapThenDecode(kind, Decoded(kind)))

CallGetOrderDetails(t, id, kind) ==
    Invoke("get_order_details", id, OrderDetailsRequest(id, t[1], t[2]), t[2],
           Decoded(kind),
           UnwrapThenDecode(kind, Decoded(kind)))

CallAddOrder(t, args, kind) ==
    Invoke("add_order", args, AddOrderRequest(args, t[1], t[2]), t[2],
           Decoded(kind),
           UnwrapThenDecode(kind, Decoded(kind)))

CallCancelOrder(t, pair, id, kind) ==
    Invoke("cancel_order", <<pair, id>>,
           CancelOrderRequest(pair, id, t[1], t[2]), t[2], Decoded(kind),
           UnwrapThenDecode(kind, Decoded(kind)))

NextClient ==
    \/ \E t \in Clocks, resp \in BalanceResponses : CallGetBalances(t, resp)
    \/ \E t \in Clocks, coin \in {"ETH", "USDT"}, resp \in BalanceResponses :
          CallGetBalance(t, coin, resp)
    \/ \E t \in Clocks, coin \in {"ETH", "USDT"}, resp \in BalanceResponses :
          CallGetAvailableBalance(t, coin, resp)
    \/ \E t \in Clocks, pair \in PairNames, resp \in PriceResponses :
          CallGetMarketPrice(t, pair, resp)
    \/ \E t \in Clocks, pair \in PairNames, kind \in DecodedKinds :
          CallGetOrders(t, pair, kind)
    \/ \E t \in Clocks, id \in OrderIds, kind \in DecodedKinds :
          CallGetOrderDetails(t, id, kind)
    \/ \E t \in Clocks, args \in AddOrderArgs, kind \in DecodedKinds :
          CallAddOrder(t, args, kind)
    \/ \E t \in Clocks, pair \in PairNames, id \in OrderIds,
          kind \in DecodedKinds : CallCancelOrder(t, pair, id, kind)

SpecClient == InitClient /\ [][NextClient]_vars

(***************************************************************************)
(* C11                                                                     *)
(***************************************************************************)
\* A call of fn has come to its end: a return or a panic.
Ended(fn) == op = fn /\ pc \in {"returned", "panicked"}

\* The answer to the balances request could not be retrieved, or the
\* `available` of the asset found in it does not parse.
BalanceUnreadable ==
    \/ net.answer.kind # "assets"
    \/ ~ParseF32(get_balance(net.answer.assets, calls[1].arg).available).ok

\* C11: every call of get_available_balance returns a value to its caller,
\* and that value is 0 when the balances could not be retrieved (transport
\* failure, undecodable answer) or `available` does not parse.
C11_NeverPropagatesFailure ==
    Ended("get_available_balance") =>
        /\ pc = "returned"
        /\ result = "Ok"
        /\ BalanceUnreadable => net.value = Zero

(***************************************************************************)
(* C12                                                                     *)
(***************************************************************************)
\* get_balance(currency) was answered with a list of assets none of which
\* has that currency code.
BalanceMiss ==
    /\ Ended("get_balance")
    /\ net.answer.kind = "assets"
    /\ \A i \in 1..Len(net.answer.assets) :
          net.answer.assets[i].currency_code # calls[1].arg

\* C12 as stated: on a miss get_balance returns Ok with an Asset whose
\* total, available and in-order quantities are all the string "0".
C12_MissGivesZeroAsset ==
    BalanceMiss =>
        /\ result = "Ok"
        /\ net.value.total = DecStr(0, 0)
        /\ net.value.available = DecStr(0, 0)
        /\ net.value.in_order = DecStr(0, 0)

\* C12 as amended: on a miss get_balance returns Ok with the default
\* Asset: no currency code, and total, available and in-order quantities
\* all the empty string.
C12_MissGivesDefaultAsset ==
    BalanceMiss =>
        /\ result = "Ok"
        /\ net.value.currency_code = "None"
        /\ net.value.total = EmptyStr
        /\ net.value.available = EmptyStr
        /\ net.value.in_order = EmptyStr

\* A miss among assets of another currency.
C12_Witness ==
    /\ BalanceMiss
    /\ net.answer.assets # <<>>
    /\ result = "Ok"

(***************************************************************************)
(* C13                                                                     *)
(***************************************************************************)
\* The value of the timestamp field among fields.
TimestampIn(fields) ==
    LET i == CHOOSE j \in 1..Len(fields) : fields[j][1] = "timestamp"
    IN fields[i][2]

\* C13: the signature of every request sent is the keyed hash of the data
\* the request transmits, the query parameters for GET and the body for
\* POST and DELETE, and the timestamp under the signature is the
\* timestamp sent.
C13_SignatureCoversRequest ==
    \A i \in 1..Len(net.sent) :
        LET r == net.sent[i] IN
        /\ r.signature =
              Hmac(IF r.method = "GET" THEN QueryStr(r.query) ELSE r.body)
        /\ TimestampIn(r.signature.hmac_sha256.fields) = TimestampIn(r.query)

(***************************************************************************)
(* C14                                                                     *)
(***************************************************************************)
\* The endpoint of each operation.
EndpointOf(fn) ==
    CASE fn \in {"get_balances", "get_balance", "get_available_balance"} ->
            <<"GET", "/c/api/v1/account/balances">>
      [] fn = "get_market_price" -> <<"GET", "/c/api/v1/market-price">>
      [] fn = "get_orders" -> <<"POST", "/c/api/v1/order/list/all">>
      [] fn = "get_order_details" -> <<"POST", "/c/api/v1/order/details">>
      [] fn = "add_order" -> <<"POST", "/c/api/v1/order/add/">>
      [] fn = "cancel_order" -> <<"DELETE", "/c/api/v1/order/cancel">>

\* C14: every call of an API Client operation, whether it returns Ok, Err
\* or panics, has sent exactly one request, to the endpoint of the
\* operation.
C14_OneRoundTripPerCall ==
    pc \in {"returned", "panicked"} =>
        /\ Len(net.sent) = 1
        /\ <<net.sent[1].method, net.sent[1].url>> = EndpointOf(op)

\* A call that failed after its one request.
C14_Witness ==
    /\ Ended("get_available_balance")
    /\ result = "panic"
    /\ net.answer.kind = "transport_error"
    /\ Len(net.sent) = 1

(***************************************************************************)
(* C15                                                                     *)
(***************************************************************************)
\* C15: in every reachable state, the exchange giving each order it books
\* an id of its own, no id occurs twice in the tracked-order set and
\* every tracked id is the id of an order this Gridbot submitted.
C15_TrackedIdsDistinct ==
    /\ \A i, j \in 1..Len(order_ids) :
          i # j => order_ids[i] # order_ids[j]
    /\ \A i \in 1..Len(order_ids) : order_ids[i] \in 1..Len(orders)

\* Two ids tracked, after an initialize and a sweep that retired nothing
\* of them.
C15_Witness ==
    /\ Len(order_ids) = 2
    /\ op = "process"
    /\ pc = "returned"
    /\ order_ids = ids0

(***************************************************************************)
(* C16                                                                     *)
(***************************************************************************)
\* C16: whenever initialize returns Ok, order_step is greater than 0, the
\* limits differ and number_of_grids is not 0.
C16_StepPositiveWhenAccepted ==
    (op = "initialize" /\ pc = "returned" /\ result = "Ok") =>
        /\ F32Gt(order_step, Zero)
        /\ config.upper_limit # config.lower_limit
        /\ config.number_of_grids # 0

(***************************************************************************)
(* C17                                                                     *)
(***************************************************************************)
\* The status that the sweep fetched for the k-th id it polled.
FetchedStatus(k) == calls[k].arg.status

\* C17: when process returns, every lookup having succeeded, it has
\* polled each id tracked at entry once, in order, and the tracked-order
\* set is the one at entry without the ids fetched as filled or canceled:
\* the ids fetched as open, partial_fill or cancelling are kept, in the
\* order they had.
C17_SweepKeepsTheRest ==
    (op = "process" /\ pc = "returned") =>
        /\ result = "Ok"
        /\ Len(calls) = Len(ids0)
        /\ \A k \in 1..Len(calls) :
              /\ calls[k].fn = "get_order_details"
              /\ calls[k].ok
              /\ calls[k].arg.id = ids0[k]
        /\ LET kept == {k \in 1..Len(ids0) :
                           FetchedStatus(k) \in
                               {"open", "partial_fill", "cancelling"}}
               gone == {k \in 1..Len(ids0) :
                           FetchedStatus(k) \in {"filled", "canceled"}}
           IN /\ kept \cup gone = 1..Len(ids0)
              /\ Len(order_ids) = Cardinality(kept)
              /\ \A k \in kept :
                    order_ids[Cardinality({j \in kept : j <= k})] = ids0[k]

\* A sweep over two ids that dropped the first and kept the second, which
\* was cancelling.
C17_Witness ==
    /\ op = "process"
    /\ pc = "returned"
    /\ Len(ids0) = 2
    /\ FetchedStatus(1) \in {"filled", "canceled"}
    /\ FetchedStatus(2) = "cancelling"
    /\ order_ids = <<ids0[2]>>

(***************************************************************************)
(* C18                                                                     *)
(***************************************************************************)
\* The add_order calls k and k + 1 come in the order of the ladder: no
\* BUY after a SELL, BUY prices falling, SELL prices rising.
InLadderOrder(k) ==
    LET a == AddOrderLog[k].arg
        b == AddOrderLog[k + 1].arg
    IN /\ ~(a.side = "SELL" /\ b.side = "BUY")
       /\ (a.side = "BUY" /\ b.side = "BUY") => F32Ge(a.price, b.price)
       /\ (a.side = "SELL" /\ b.side = "SELL") => F32Le(a.price, b.price)

\* C18: the calls of initialize are, in this order: the balance of the
\* base currency, the balance of the quote currency, the market price,
\* the BUY add_order calls by falling price, the SELL add_order calls by
\* rising price; with invalid limits there is no call at all; and an
\* add_order call is made only after both balances and the price were
\* fetched and the checks of the limits, the price and the balances
\* passed.
C18_CallOrderOfInitialize ==
    op = "initialize" =>
        /\ (\/ F32Lt(config.upper_limit, Zero)
            \/ F32Lt(config.lower_limit, Zero)
            \/ F32Lt(config.upper_limit, config.lower_limit)) => calls = <<>>
        /\ \A k \in 1..Len(calls) :
              /\ k <= 2 => /\ calls[k].fn = "get_available_balance"
                           /\ calls[k].arg = config.pair[k]
              /\ k = 3 => /\ calls[k].fn = "get_market_price"
                          /\ calls[k].arg = config.pair
              /\ k > 3 => calls[k].fn = "add_order"
        /\ \A k \in 1..(Len(AddOrderLog) - 1) : InLadderOrder(k)
        /\ AddOrderLog # <<>> =>
              /\ \A k \in 1..3 : calls[k].ok
              /\ PricedWithinLimits
              /\ F32Ge(balances[1], RequiredSellCoin)
              /\ F32Ge(balances[2], RequiredBuyCoin)

\* An initialize that placed a buy, then a sell.
C18_Witness ==
    /\ op = "initialize"
    /\ Len(calls) = 5
    /\ AddOrderLog[1].arg.side = "BUY"
    /\ AddOrderLog[2].arg.side = "SELL"
    /\ AddOrderLog[2].ok

(***************************************************************************)
(* Progress of the calls                                                   *)
(***************************************************************************)
\* Execution is synchronous, call and return: a call that is under way
\* goes on.  In a sweep the pending get_order_details comes back, with
\* one outcome or another, and a call that has returned hands control
\* back to its caller.  Which operation the caller invokes next, and when,
\* is not the program's doing, and neither is what the exchange does.
SpecLive ==
    /\ Init
    /\ [][Next]_vars
    /\ WF_vars(\E outcome \in OrderDetailsOutcomes : GetOrderDetails(outcome))
    /\ WF_vars(Resume)

(***************************************************************************)
(* C19                                                                     *)
(***************************************************************************)
\* The tracked order is FILLED or CANCELLED on the exchange.
Settled(id) == orders[id].status \in {"filled", "canceled"}

\* From some point on every tracked order has reached FILLED or CANCELLED.
TrackedOrdersSettle ==
    <>[](\A i \in 1..Len(order_ids) : Settled(order_ids[i]))

\* process keeps being invoked, every lookup succeeds, and from some point
\* on process is the only operation invoked.
ProcessKeepsRunning ==
    /\ []<>(op = "process")
    /\ [](pc # "panicked")
    /\ <>[](op # "initialize")

\* A step that makes the tracked-order set longer is a successful
\* add_order of initialize that appends one id; no step into or inside
\* process makes it longer.
TrackedGrowsOnlyOnPlacement ==
    /\ Len(order_ids') > Len(order_ids) =>
          /\ op = "initialize"
          /\ op' = "initialize"
          /\ Len(calls') = Len(calls) + 1
          /\ calls'[Len(calls')].fn = "add_order"
          /\ calls'[Len(calls')].ok
          /\ Len(order_ids') = Len(order_ids) + 1
          /\ SubSeq(order_ids', 1, Len(order_ids)) = order_ids
    /\ op' = "process" => Len(order_ids') <= Len(order_ids)

\* C19: the tracked-order set grows only in initialize, by a successful
\* add_order, and never during process; and if every tracked order
\* eventually is FILLED or CANCELLED on the exchange while process keeps
\* being invoked and its lookups succeed, the tracked-order set eventually
\* is empty and stays empty.
C19_TrackedSetDrains ==
    /\ [][TrackedGrowsOnlyOnPlacement]_vars
    /\ (TrackedOrdersSettle /\ ProcessKeepsRunning) => <>[](order_ids = <<>>)

\* A sweep that found both tracked orders settled and emptied the set.
C19_Witness ==
    /\ op = "process"
    /\ pc = "returned"
    /\ Len(ids0) = 2
    /\ \A i \in 1..2 : Settled(ids0[i])
    /\ order_ids = <<>>

(***************************************************************************)
(* C20                                                                     *)
(***************************************************************************)
\* C20: the price of every add_order call of initialize, BUY or SELL,
\* lies in the closed range [lower_limit, upper_limit], for every
\* configuration and market price that pass the checks.
C20_SubmittedPricesWithinLimits ==
    op = "initialize" =>
        \A k \in 1..Len(AddOrderLog) :
            /\ F32Le(config.lower_limit, AddOrderLog[k].arg.price)
            /\ F32Le(AddOrderLog[k].arg.price, config.upper_limit)

=============================================================================
